---- MODULE Spec2Model ----
(***************************************************************************)
(* Veritas Reputation Scoring (scoring.py).                                *)
(*                                                                         *)
(* The module is four pure functions over Python floats.  Python floats    *)
(* are IEEE-754 binary64 values, and several properties of the module are  *)
(* decided by how binary64 rounds (0.4 + 0.4 + 0.19 is rejected by the     *)
(* weight check although 0.99 is within 0.01 of 1), so the arithmetic is   *)
(* modelled bit-exactly: a finite float is a sign, a 53-bit significand    *)
(* and an exponent, every operation is computed exactly over unbounded     *)
(* naturals and then rounded to nearest, ties to even.  Infinities, NaN,   *)
(* overflow and subnormals are outside the model: every input is a finite  *)
(* decimal literal of moderate size.                                       *)
(***************************************************************************)
EXTENDS Integers, Sequences, FiniteSets, TLC

(***************************************************************************)
(* Unbounded naturals: little-endian sequences of 15-bit limbs with no     *)
(* leading zero limb; <<>> is 0.                                           *)
(***************************************************************************)
LimbBase == 2 ^ 15

Limb(a, i) == IF i <= Len(a) THEN a[i] ELSE 0

RECURSIVE BNorm(_)
BNorm(a) ==
    IF a = <<>> THEN <<>>
    ELSE IF a[Len(a)] = 0 THEN BNorm(SubSeq(a, 1, Len(a) - 1))
    ELSE a

RECURSIVE BFromInt(_)
BFromInt(n) ==
    IF n = 0 THEN <<>> ELSE <<n % LimbBase>> \o BFromInt(n \div LimbBase)

RECURSIVE Zeros(_)
Zeros(n) == IF n <= 0 THEN <<>> ELSE <<0>> \o Zeros(n - 1)

RECURSIVE BCmpFrom(_, _, _)
BCmpFrom(a, b, i) ==
    IF i = 0 THEN 0
    ELSE IF a[i] < b[i] THEN -1
    ELSE IF a[i] > b[i] THEN 1
    ELSE BCmpFrom(a, b, i - 1)

BCmp(a, b) ==
    IF Len(a) < Len(b) THEN -1
    ELSE IF Len(a) > Len(b) THEN 1
    ELSE BCmpFrom(a, b, Len(a))

RECURSIVE BAddFrom(_, _, _, _)
BAddFrom(a, b, i, c) ==
    IF i > Len(a) /\ i > Len(b)
    THEN (IF c = 0 THEN <<>> ELSE <<c>>)
    ELSE LET s == Limb(a, i) + Limb(b, i) + c
         IN  <<s % LimbBase>> \o BAddFrom(a, b, i + 1, s \div LimbBase)

BAdd(a, b) == BAddFrom(a, b, 1, 0)

RECURSIVE BSubFrom(_, _, _, _)
BSubFrom(a, b, i, c) ==
    IF i > Len(a) THEN <<>>
    ELSE LET d == a[i] - Limb(b, i) - c
         IN  IF d < 0 THEN <<d + LimbBase>> \o BSubFrom(a, b, i + 1, 1)
             ELSE <<d>> \o BSubFrom(a, b, i + 1, 0)

\* a - b for a >= b
BSub(a, b) == BNorm(BSubFrom(a, b, 1, 0))

RECURSIVE BMulSmallFrom(_, _, _, _)
BMulSmallFrom(a, k, i, c) ==
    IF i > Len(a)
    THEN (IF c = 0 THEN <<>> ELSE <<c>>)
    ELSE LET p == a[i] * k + c
         IN  <<p % LimbBase>> \o BMulSmallFrom(a, k, i + 1, p \div LimbBase)

\* a * k for 0 <= k < LimbBase
BMulSmall(a, k) == IF k = 0 THEN <<>> ELSE BMulSmallFrom(a, k, 1, 0)

RECURSIVE BMulFrom(_, _, _)
BMulFrom(a, b, j) ==
    IF j > Len(b) THEN <<>>
    ELSE BAdd(BNorm(Zeros(j - 1) \o BMulSmall(a, b[j])), BMulFrom(a, b, j + 1))

BMul(a, b) == BMulFrom(a, b, 1)

RECURSIVE BDivSmallFrom(_, _, _, _)
BDivSmallFrom(a, d, i, r) ==
    IF i = 0 THEN <<>>
    ELSE LET t == r * LimbBase + a[i]
         IN  BDivSmallFrom(a, d, i - 1, t % d) \o <<t \div d>>

RECURSIVE BModSmallFrom(_, _, _, _)
BModSmallFrom(a, d, i, r) ==
    IF i = 0 THEN r
    ELSE BModSmallFrom(a, d, i - 1, (r * LimbBase + a[i]) % d)

\* floor(a / d) and a mod d for 0 < d <= LimbBase
BDivSmall(a, d) == BNorm(BDivSmallFrom(a, d, Len(a), 0))
BModSmall(a, d) == BModSmallFrom(a, d, Len(a), 0)

\* a * 2^n and floor(a / 2^n)
BShl(a, n) ==
    IF a = <<>> THEN <<>>
    ELSE Zeros(n \div 15) \o BMulSmall(a, 2 ^ (n % 15))

BShr(a, n) ==
    IF n \div 15 >= Len(a) THEN <<>>
    ELSE BDivSmall(SubSeq(a, n \div 15 + 1, Len(a)), 2 ^ (n % 15))

RECURSIVE BitLenSmall(_)
BitLenSmall(x) == IF x = 0 THEN 0 ELSE 1 + BitLenSmall(x \div 2)

BBitLen(a) ==
    IF a = <<>> THEN 0 ELSE 15 * (Len(a) - 1) + BitLenSmall(a[Len(a)])

\* bit n of a (bit 0 is the lowest)
BBit(a, n) == (Limb(a, n \div 15 + 1) \div 2 ^ (n % 15)) % 2

\* TRUE iff the n lowest bits of a are all 0
BLowBitsZero(a, n) ==
    /\ \A i \in 1..(n \div 15) : Limb(a, i) = 0
    /\ Limb(a, n \div 15 + 1) % 2 ^ (n % 15) = 0

BIsOdd(a) == Limb(a, 1) % 2 = 1

(***************************************************************************)
(* binary64.  A float is [s, m, e] with value (-1)^s * m * 2^e, where m is *)
(* 0 (and then e = 0) or has exactly 53 bits.                              *)
(***************************************************************************)
FZero(s) == [s |-> s, m |-> <<>>, e |-> 0]

IsZero(x) == x.m = <<>>

\* nearest float to (-1)^s * (M * 2^E + tail), ties to even; sticky says that
\* a nonzero tail smaller than 2^E was dropped from M.
RoundNearestEven(s, M, E, sticky) ==
    LET L == BBitLen(M)
    IN  IF L = 0 THEN FZero(s)
        ELSE IF L <= 53
        THEN [s |-> s, m |-> BShl(M, 53 - L), e |-> E - (53 - L)]
        ELSE LET sh    == L - 53
                 q     == BShr(M, sh)
                 guard == BBit(M, sh - 1)
                 rest  == sticky \/ ~BLowBitsZero(M, sh - 1)
                 up    == guard = 1 /\ (rest \/ BIsOdd(q))
                 q1    == IF up THEN BAdd(q, <<1>>) ELSE q
             IN  IF BBitLen(q1) > 53
                 THEN [s |-> s, m |-> BShr(q1, 1), e |-> E + sh + 1]
                 ELSE [s |-> s, m |-> q1, e |-> E + sh]

\* the float a decimal or integer literal n/d denotes (0 < d <= LimbBase)
FromRatio(n, d) ==
    LET s == IF n < 0 THEN 1 ELSE 0
        N == BShl(BFromInt(IF n < 0 THEN -n ELSE n), 70)
    IN  RoundNearestEven(s, BDivSmall(N, d), -70, BModSmall(N, d) # 0)

FromInt(n) == FromRatio(n, 1)

\* magnitudes compared: -1, 0, 1
MagCmp(a, b) ==
    IF IsZero(a) THEN (IF IsZero(b) THEN 0 ELSE -1)
    ELSE IF IsZero(b) THEN 1
    ELSE IF a.e < b.e THEN -1
    ELSE IF a.e > b.e THEN 1
    ELSE BCmp(a.m, b.m)

\* a ? b as -1, 0, 1 (0.0 and -0.0 are equal)
FCmp(a, b) ==
    IF IsZero(a) /\ IsZero(b) THEN 0
    ELSE IF IsZero(a) THEN (IF b.s = 1 THEN 1 ELSE -1)
    ELSE IF IsZero(b) THEN (IF a.s = 1 THEN -1 ELSE 1)
    ELSE IF a.s # b.s THEN (IF a.s = 1 THEN -1 ELSE 1)
    ELSE IF a.s = 0 THEN MagCmp(a, b) ELSE MagCmp(b, a)

FLt(a, b) == FCmp(a, b) < 0
FGt(a, b) == FCmp(a, b) > 0
FLe(a, b) == FCmp(a, b) <= 0
FEq(a, b) == FCmp(a, b) = 0

FNeg(a) == [a EXCEPT !.s = 1 - @]
FAbs(a) == [a EXCEPT !.s = 0]

FAdd(a, b) ==
    IF IsZero(a) /\ IsZero(b) THEN FZero(IF a.s = 1 /\ b.s = 1 THEN 1 ELSE 0)
    ELSE IF IsZero(a) THEN b
    ELSE IF IsZero(b) THEN a
    ELSE LET lo == IF a.e < b.e THEN a.e ELSE b.e
             A  == BShl(a.m, a.e - lo)
             B  == BShl(b.m, b.e - lo)
             c  == BCmp(A, B)
         IN  IF a.s = b.s THEN RoundNearestEven(a.s, BAdd(A, B), lo, FALSE)
             ELSE IF c = 0 THEN FZero(0)
             ELSE IF c > 0 THEN RoundNearestEven(a.s, BSub(A, B), lo, FALSE)
             ELSE RoundNearestEven(b.s, BSub(B, A), lo, FALSE)

FSub(a, b) == FAdd(a, FNeg(b))

FMul(a, b) ==
    LET s == (a.s + b.s) % 2
    IN  IF IsZero(a) \/ IsZero(b) THEN FZero(s)
        ELSE RoundNearestEven(s, BMul(a.m, b.m), a.e + b.e, FALSE)

\* x / 2: exact, only the exponent changes
FDiv2(a) == IF IsZero(a) THEN a ELSE [a EXCEPT !.e = @ - 1]

\* Python's min(a, b) and max(a, b): the first argument unless the second is
\* strictly smaller (larger)
PyMin(a, b) == IF FLt(b, a) THEN b ELSE a
PyMax(a, b) == IF FGt(b, a) THEN b ELSE a

\* the float nearest to (-1)^s * n / 100, n a natural
FromHundredths(s, n) ==
    LET N == BShl(n, 70)
    IN  RoundNearestEven(s, BDivSmall(N, 100), -70, BModSmall(N, 100) # 0)

\* the integer nearest to |x| * 100, ties to even, as a natural
Hundredths(x) ==
    LET t == BMulSmall(x.m, 100)
    IN  IF x.e >= 0 THEN BShl(t, x.e)
        ELSE LET k  == -x.e
                 q  == BShr(t, k)
                 up == BBit(t, k - 1) = 1
                       /\ (~BLowBitsZero(t, k - 1) \/ BIsOdd(q))
             IN  IF up THEN BAdd(q, <<1>>) ELSE q

\* Python's round(x, 2): the exact value of x rounded to 2 decimals, ties to
\* even, then the float nearest to that decimal
\* round(x, 2) with ties rounded away from zero instead of to even
HundredthsHalfUp(x) ==
    LET t == BMulSmall(x.m, 100)
    IN  IF x.e >= 0 THEN BShl(t, x.e)
        ELSE IF BBit(t, -x.e - 1) = 1 THEN BAdd(BShr(t, -x.e), <<1>>)
        ELSE BShr(t, -x.e)

PyRound2_half_up(x) ==
    IF IsZero(x) THEN x ELSE FromHundredths(x.s, HundredthsHalfUp(x))

PyRound2(x) == IF IsZero(x) THEN x ELSE FromHundredths(x.s, Hundredths(x))


(***************************************************************************)
(* scoring.py: the literals of the source                                  *)
(***************************************************************************)
F_0_0  == FromInt(0)
F_1_0  == FromInt(1)
F_0_02 == FromRatio(2, 100)
F_0_1  == FromRatio(1, 10)
F_0_05 == FromRatio(5, 100)
F_0_15 == FromRatio(15, 100)
F_0_01 == FromRatio(1, 100)
F_0_4  == FromRatio(4, 10)
F_0_2  == FromRatio(2, 10)

(***************************************************************************)
(* scoring.py: the component scores                                        *)
(***************************************************************************)
S_base_score(credibility_score, source_reputation) ==
    FDiv2(FAdd(credibility_score, source_reputation))

verification_bonus(verification_count) ==
    PyMin(FMul(FromInt(verification_count), F_0_02), F_0_1)

\* compute_S without the cap of line 46
compute_S_uncapped(credibility_score, source_reputation, verification_count) ==
    FAdd(S_base_score(credibility_score, source_reputation),
         verification_bonus(verification_count))

compute_S(credibility_score, source_reputation, verification_count) ==
    PyMin(FAdd(S_base_score(credibility_score, source_reputation),
               verification_bonus(verification_count)),
          F_1_0)

C_base_score(accuracy, completeness) == FDiv2(FAdd(accuracy, completeness))

\* compute_C without the floor of line 76
compute_C_unfloored(accuracy, completeness, bias_score) ==
    FSub(C_base_score(accuracy, completeness), bias_score)

compute_C(accuracy, completeness, bias_score) ==
    PyMax(FSub(C_base_score(accuracy, completeness), bias_score), F_0_0)

\* the base term without the floor of line 105
T_base_score_unfloored(age_days, relevance_decay) ==
    FSub(F_1_0, FMul(age_days, relevance_decay))

T_base_score(age_days, relevance_decay) ==
    PyMax(FSub(F_1_0, FMul(age_days, relevance_decay)), F_0_0)

update_bonus(update_frequency) ==
    PyMin(FMul(FromInt(update_frequency), F_0_05), F_0_15)

\* compute_T with the decay added instead of subtracted
compute_T_growing(age_days, update_frequency, relevance_decay) ==
    PyMin(FAdd(FMul(age_days, relevance_decay), update_bonus(update_frequency)),
          F_1_0)

compute_T(age_days, update_frequency, relevance_decay) ==
    PyMin(FAdd(T_base_score(age_days, relevance_decay),
               update_bonus(update_frequency)),
          F_1_0)

(***************************************************************************)
(* scoring.py: the weighted score.  The outcome of a call is a record:     *)
(* exc is "ValueError" or "none", value is the returned float.             *)
(***************************************************************************)
NoValue == [s |-> 0, m |-> <<>>, e |-> 1]

Returns(v) == [exc |-> "none", value |-> v]
Raises(x)  == [exc |-> x, value |-> NoValue]

\* the weight check without abs(): only a sum above 1.01 is rejected
WeightsRejected_no_abs(w1, w2, w3) ==
    FGt(FSub(FAdd(FAdd(w1, w2), w3), F_1_0), F_0_01)

\* line 147: the condition under which the weights are rejected
WeightsRejected(w1, w2, w3) ==
    FGt(FAbs(FSub(FAdd(FAdd(w1, w2), w3), F_1_0)), F_0_01)

\* line 151
vrs(S, C, T, w1, w2, w3) ==
    FAdd(FAdd(FMul(w1, S), FMul(w2, C)), FMul(w3, T))

calculate_VRS(S, C, T, w1, w2, w3) ==
    IF WeightsRejected(w1, w2, w3) THEN Raises("ValueError")
    ELSE Returns(PyRound2(vrs(S, C, T, w1, w2, w3)))

(***************************************************************************)
(* The inputs the calls are made with.                                     *)
(***************************************************************************)
ScoreSteps == 8
MaxCount   == 6
MaxUpdates == 4
MaxAge     == 10

\* the documented domain [0.0, 1.0] of a rating or a sub-score
InUnit(x) == FLe(F_0_0, x) /\ FLe(x, F_1_0)

Unit     == {FromRatio(i, ScoreSteps) : i \in 0..ScoreSteps}
Beyond   == {FromRatio(-1, 2), FromRatio(3, 2), FromInt(-40), FromInt(250)}
DocScore == {FromRatio(n, 10) : n \in {1, 8, 9}}
Scores   == Unit \cup DocScore \cup Beyond
Few(doc)  == {FromRatio(n, 10) : n \in {0, 5, 10, doc}}
                \cup {FromRatio(-1, 2), FromInt(250)}

Counts   == {-2} \cup 0..MaxCount
Updates  == {-2} \cup 0..MaxUpdates
InAges   == {FromRatio(5 * k, 2) : k \in 0..MaxAge}
Ages     == InAges \cup {FromRatio(-5, 2), FromInt(1000)}
InDecays == {FromRatio(n, 100) : n \in {0, 5, 10, 30}}
Decays   == InDecays \cup {FromRatio(-5, 100)}

\* weight triples: two weights in thousandths and a third that makes the sum
\* miss 1 by slack thousandths
WeightPairs == {<<400, 400>>, <<330, 330>>, <<500, 300>>, <<1000, 0>>, <<2000, -1000>>}
WeightSlack == {-500, -11, -10, -9, 0, 9, 10, 11, 500}
Weights ==
    {<<FromRatio(p[1], 1000), FromRatio(p[2], 1000),
       FromRatio(1000 - p[1] - p[2] + d, 1000)>> : p \in WeightPairs, d \in WeightSlack}
RawWeights ==
    {<<FromRatio(p[1], 10), FromRatio(p[2], 10), FromRatio(p[3], 10)>> :
        p \in {<<4, 4, 2>>, <<5, 3, 2>>, <<5, 5, 0>>, <<5, 5, 5>>, <<6, 6, -2>>}}

Args_compute_S ==
    [credibility_score : Scores, source_reputation : Few(9), verification_count : Counts]
Args_compute_C ==
    [accuracy : Scores, completeness : Few(8), bias_score : Few(1)]
Args_compute_T ==
    [age_days : Ages, update_frequency : Updates, relevance_decay : Decays]
Args_calculate_VRS ==
    {[S |-> s, C |-> c, T |-> t, w1 |-> w[1], w2 |-> w[2], w3 |-> w[3]] :
        s \in Unit \cup {FromRatio(-1, 2), FromRatio(3, 2)},
        c \in {FromRatio(n, 2) : n \in 0..2},
        t \in {F_0_0, F_1_0},
        w \in Weights}
Args_calculate_VRS_from_raw ==
    {[credibility_score |-> s[1], source_reputation |-> s[2], verification_count |-> s[3],
      accuracy |-> c[1], completeness |-> c[2], bias_score |-> c[3],
      age_days |-> a, update_frequency |-> u, relevance_decay |-> d,
      w1 |-> w[1], w2 |-> w[2], w3 |-> w[3]] :
        s \in {<<FromRatio(8, 10), FromRatio(9, 10), 5>>,
               <<FromRatio(5, 10), FromRatio(6, 10), 0>>},
        c \in {<<FromRatio(9, 10), FromRatio(8, 10), FromRatio(1, 10)>>,
               <<FromRatio(7, 10), FromRatio(6, 10), F_0_0>>},
        a \in InAges, u \in {0, 2},
        d \in {FromRatio(n, 100) : n \in {0, 5, 10}},
        w \in RawWeights}

(***************************************************************************)
(* One call of one function of the module.  fn is the function called,     *)
(* args its arguments, pc the position in its body, S, C and T the locals  *)
(* of calculate_VRS_from_raw and result the outcome of the call.           *)
(***************************************************************************)
VARIABLES fn, args, pc, S, C, T, result

vars == <<fn, args, pc, S, C, T, result>>

Pending == [exc |-> "pending", value |-> NoValue]

Init ==
    /\ fn \in {"compute_S", "compute_C", "compute_T", "calculate_VRS",
               "calculate_VRS_from_raw"}
    /\ args \in CASE fn = "compute_S" -> Args_compute_S
                  [] fn = "compute_C" -> Args_compute_C
                  [] fn = "compute_T" -> Args_compute_T
                  [] fn = "calculate_VRS" -> Args_calculate_VRS
                  [] OTHER -> Args_calculate_VRS_from_raw
    /\ pc = "call"
    /\ S = NoValue /\ C = NoValue /\ T = NoValue
    /\ result = Pending

Call_compute_S ==
    /\ fn = "compute_S" /\ pc = "call"
    /\ result' = Returns(compute_S(args.credibility_score, args.source_reputation,
                                   args.verification_count))
    /\ pc' = "done"
    /\ UNCHANGED <<fn, args, S, C, T>>

Call_compute_C ==
    /\ fn = "compute_C" /\ pc = "call"
    /\ result' = Returns(compute_C(args.accuracy, args.completeness, args.bias_score))
    /\ pc' = "done"
    /\ UNCHANGED <<fn, args, S, C, T>>

Call_compute_T ==
    /\ fn = "compute_T" /\ pc = "call"
    /\ result' = Returns(compute_T(args.age_days, args.update_frequency,
                                   args.relevance_decay))
    /\ pc' = "done"
    /\ UNCHANGED <<fn, args, S, C, T>>

Call_calculate_VRS ==
    /\ fn = "calculate_VRS" /\ pc = "call"
    /\ result' = calculate_VRS(args.S, args.C, args.T, args.w1, args.w2, args.w3)
    /\ pc' = "done"
    /\ UNCHANGED <<fn, args, S, C, T>>

\* line 197
FromRaw_S ==
    /\ fn = "calculate_VRS_from_raw" /\ pc = "call"
    /\ S' = compute_S(args.credibility_score, args.source_reputation,
                      args.verification_count)
    /\ pc' = "198"
    /\ UNCHANGED <<fn, args, C, T, result>>

\* line 198
FromRaw_C ==
    /\ fn = "calculate_VRS_from_raw" /\ pc = "198"
    /\ C' = compute_C(args.accuracy, args.completeness, args.bias_score)
    /\ pc' = "199"
    /\ UNCHANGED <<fn, args, S, T, result>>

\* line 199 with relevance_decay not passed on: compute_T uses its default
FromRaw_T_default_decay ==
    /\ fn = "calculate_VRS_from_raw" /\ pc = "199"
    /\ T' = compute_T(args.age_days, args.update_frequency, F_0_05)
    /\ pc' = "200"
    /\ UNCHANGED <<fn, args, S, C, result>>

\* line 199
FromRaw_T ==
    /\ fn = "calculate_VRS_from_raw" /\ pc = "199"
    /\ T' = compute_T(args.age_days, args.update_frequency, args.relevance_decay)
    /\ pc' = "200"
    /\ UNCHANGED <<fn, args, S, C, result>>

\* line 200
FromRaw_VRS ==
    /\ fn = "calculate_VRS_from_raw" /\ pc = "200"
    /\ result' = calculate_VRS(S, C, T, args.w1, args.w2, args.w3)
    /\ pc' = "done"
    /\ UNCHANGED <<fn, args, S, C, T>>

Next ==
    \/ Call_compute_S
    \/ Call_compute_C
    \/ Call_compute_T
    \/ Call_calculate_VRS
    \/ FromRaw_S
    \/ FromRaw_C
    \/ FromRaw_T
    \/ FromRaw_VRS

Spec == Init /\ [][Next]_vars

\* the call of f has finished
Done(f) == fn = f /\ pc = "done"

\* the call has returned a value (it did not raise)
Returned == pc = "done" /\ result.exc = "none"

(***************************************************************************)
(* Properties                                                              *)
(***************************************************************************)

\* C1: calculate_VRS raises ValueError exactly when
\* abs((w1 + w2 + w3) - 1.0) > 0.01, whatever S, C and T are; otherwise it
\* returns a score and raises nothing.
C1_WeightCheck ==
    Done("calculate_VRS") =>
        LET miss == FAbs(FSub(FAdd(FAdd(args.w1, args.w2), args.w3), F_1_0))
        IN  IF FGt(miss, F_0_01)
            THEN result = Raises("ValueError")
            ELSE result.exc = "none" /\ result.value # NoValue

\* a rejected call whose weights sum to less than 1, with S outside [0, 1]
C1_Witness ==
    /\ Done("calculate_VRS")
    /\ result.exc = "ValueError"
    /\ FLt(FAdd(FAdd(args.w1, args.w2), args.w3), F_1_0)
    /\ ~InUnit(args.S)

\* C2 as stated: every sub-score and every final score lies in [0.0, 1.0],
\* whatever the inputs.
C2_AlwaysClamped == Returned => InUnit(result.value)

\* C2 amended: whatever the (finite) inputs, compute_S and compute_T never
\* exceed 1.0 and compute_C never goes below 0.0.
C2_OneSidedClamps ==
    /\ Done("compute_S") => FLe(result.value, F_1_0)
    /\ Done("compute_T") => FLe(result.value, F_1_0)
    /\ Done("compute_C") => FLe(F_0_0, result.value)

\* compute_S called with a credibility far above 1 and capped at 1.0
C2_Witness ==
    /\ Done("compute_S")
    /\ FGt(args.credibility_score, F_1_0)
    /\ FGt(S_base_score(args.credibility_score, args.source_reputation), F_1_0)
    /\ result.value = F_1_0

InDomain_S ==
    /\ InUnit(args.credibility_score)
    /\ InUnit(args.source_reputation)
    /\ args.verification_count >= 0

InDomain_C ==
    /\ InUnit(args.accuracy)
    /\ InUnit(args.completeness)
    /\ InUnit(args.bias_score)

InDomain_T ==
    /\ FLe(F_0_0, args.age_days)
    /\ args.update_frequency >= 0
    /\ FLe(F_0_0, args.relevance_decay)

\* C3: with every input in its documented domain, compute_S, compute_C and
\* compute_T each return a value in [0.0, 1.0].
C3_InDomainInUnit ==
    /\ Done("compute_S") /\ InDomain_S => InUnit(result.value)
    /\ Done("compute_C") /\ InDomain_C => InUnit(result.value)
    /\ Done("compute_T") /\ InDomain_T => InUnit(result.value)

\* compute_C with in-domain inputs whose bias exceeds the average: the floor acts
C3_Witness ==
    /\ Done("compute_C") /\ InDomain_C
    /\ FGt(args.bias_score, C_base_score(args.accuracy, args.completeness))
    /\ FEq(result.value, F_0_0)

\* C4: with S, C and T in [0, 1] and weights that pass the check, the score
\* calculate_VRS returns lies in [0.0, 1.0].
C4_Normalized ==
    Done("calculate_VRS") /\ result.exc = "none"
        /\ InUnit(args.S) /\ InUnit(args.C) /\ InUnit(args.T)
    => InUnit(result.value)

\* C5: calculate_VRS_from_raw ends as calculate_VRS does on compute_S,
\* compute_C and compute_T of the raw inputs: the same score, or the same
\* ValueError.
C5_FromRawIsComposition ==
    Done("calculate_VRS_from_raw") =>
        result = calculate_VRS(
                    compute_S(args.credibility_score, args.source_reputation,
                              args.verification_count),
                    compute_C(args.accuracy, args.completeness, args.bias_score),
                    compute_T(args.age_days, args.update_frequency,
                              args.relevance_decay),
                    args.w1, args.w2, args.w3)

\* calculate_VRS_from_raw has passed on the ValueError of calculate_VRS, with a
\* decay other than the default
C5_Witness ==
    /\ Done("calculate_VRS_from_raw")
    /\ result = Raises("ValueError")
    /\ T # NoValue
    /\ args.relevance_decay # F_0_05

\* C6: with the default weights and the default decay,
\* calculate_VRS_from_raw(0.8, 0.9, 5, 0.9, 0.8, 0.1, 0, 0) returns 0.79.
C6_FromRawExample ==
    /\ Done("calculate_VRS_from_raw")
    /\ args.credibility_score = FromRatio(8, 10)
    /\ args.source_reputation = FromRatio(9, 10)
    /\ args.verification_count = 5
    /\ args.accuracy = FromRatio(9, 10)
    /\ args.completeness = FromRatio(8, 10)
    /\ args.bias_score = FromRatio(1, 10)
    /\ args.age_days = F_0_0
    /\ args.update_frequency = 0
    /\ args.relevance_decay = F_0_05
    /\ args.w1 = F_0_4 /\ args.w2 = F_0_4 /\ args.w3 = F_0_2
    => result = Returns(FromRatio(79, 100))

\* C7: compute_S(0.8, 0.9, 5) = 0.88, compute_C(0.9, 0.8, 0.1) = 0.76 and
\* compute_T(10, 2, 0.05) = 0.65.
C7_SubScoreExamples ==
    /\ (/\ Done("compute_S")
        /\ args.credibility_score = FromRatio(8, 10)
        /\ args.source_reputation = FromRatio(9, 10)
        /\ args.verification_count = 5)
       => result = Returns(FromRatio(88, 100))
    /\ (/\ Done("compute_C")
        /\ args.accuracy = FromRatio(9, 10)
        /\ args.completeness = FromRatio(8, 10)
        /\ args.bias_score = FromRatio(1, 10))
       => result = Returns(FromRatio(76, 100))
    /\ (/\ Done("compute_T")
        /\ args.age_days = FromInt(10)
        /\ args.update_frequency = 2
        /\ args.relevance_decay = F_0_05)
       => result = Returns(FromRatio(65, 100))

Off(v, n) ==
    LET a == BMulSmall(v.m, 100)
        b == BShl(n, -v.e)
    IN  IF BCmp(a, b) >= 0 THEN BSub(a, b) ELSE BSub(b, a)

\* n / 100 is the multiple of 0.01 nearest to |v|, the even one when two are
\* equally near
NearestHundredth(v, n) ==
    IF IsZero(v) THEN n = <<>>
    ELSE IF v.e >= 0 THEN n = BShl(BMulSmall(v.m, 100), v.e)
    ELSE LET twice == BShl(Off(v, n), 1)
             one   == BShl(<<1>>, -v.e)
         IN  \/ BCmp(twice, one) < 0
             \/ BCmp(twice, one) = 0 /\ ~BIsOdd(n)

\* |100 * v| lies exactly halfway between two integers
Halfway(v) ==
    ~IsZero(v) /\ v.e < 0 /\ BBit(BMulSmall(v.m, 100), -v.e - 1) = 1
    /\ BLowBitsZero(BMulSmall(v.m, 100), -v.e - 1)

\* C9: when the weights are accepted, calculate_VRS returns the multiple of
\* 0.01 nearest to w1*S + w2*C + w3*T, and the one with the even last digit
\* when the sum is exactly halfway between two of them.
C9_BankersRounding ==
    Done("calculate_VRS") /\ result.exc = "none"
    => LET v == vrs(args.S, args.C, args.T, args.w1, args.w2, args.w3)
           n == Hundredths(result.value)
       IN  /\ result.value = FromHundredths(v.s, n)
           /\ NearestHundredth(v, n)

\* a weighted sum exactly halfway between two multiples of 0.01, rounded down
\* to the even one
C9_Witness ==
    /\ Done("calculate_VRS") /\ result.exc = "none"
    /\ Halfway(vrs(args.S, args.C, args.T, args.w1, args.w2, args.w3))
    /\ FLt(result.value, vrs(args.S, args.C, args.T, args.w1, args.w2, args.w3))

\* C10: with relevance_decay >= 0 and accepted weights with w3 >= 0, the
\* score calculate_VRS_from_raw returns for age_days is at most the score it
\* returns, other inputs equal, for any smaller age.
C10_NeverRisesWithAge ==
    Done("calculate_VRS_from_raw") /\ result.exc = "none"
        /\ FLe(F_0_0, args.relevance_decay) /\ FLe(F_0_0, args.w3)
    => \A a1 \in Ages :
          FLe(a1, args.age_days)
          => FLe(result.value,
                 calculate_VRS(
                    compute_S(args.credibility_score, args.source_reputation,
                              args.verification_count),
                    compute_C(args.accuracy, args.completeness, args.bias_score),
                    compute_T(a1, args.update_frequency, args.relevance_decay),
                    args.w1, args.w2, args.w3).value)

\* an aged item scored strictly below the same item at age 0
C10_Witness ==
    /\ Done("calculate_VRS_from_raw") /\ result.exc = "none"
    /\ FGt(args.relevance_decay, F_0_0) /\ FGt(args.w3, F_0_0)
    /\ FGt(args.age_days, F_0_0)
    /\ FLt(result.value,
           calculate_VRS(S, C, compute_T(F_0_0, args.update_frequency,
                                         args.relevance_decay),
                         args.w1, args.w2, args.w3).value)
====
